---- MODULE Spec2Model ----
(***************************************************************************)
(* The transaction engine of account-manager (src/src/main.rs): two hash   *)
(* maps, accounts (client -> Account) and transactions (tx ->              *)
(* TransactionDetails), and process_transaction, which applies one event   *)
(* at a time.                                                              *)
(*                                                                         *)
(* A Decimal is modelled by the integer number of ten-thousandths it       *)
(* denotes (0.0001 is 1, 1.0 is Unit); Decimal addition, subtraction and   *)
(* comparison are exact on such values, so they are the integer ones.      *)
(* The 96-bit range of Decimal is far outside the values reached here.     *)
(***************************************************************************)
EXTENDS Integers, Sequences, FiniteSets, TLC

\* Number of events read from the input before the run ends.
MaxEvents == 5

\* Ten-thousandths in 1.0: the input format carries four fractional digits.
Unit == 10000

Dec(x) == x * Unit

\* u16 client ids and u32 transaction ids that occur in the input.
Clients == {1, 2}
TxIds == {4, 5}

\* Amounts of Deposit and Withdrawal rows, in ten-thousandths: Decimal is
\* signed, so the input may carry a negative amount; 1 is the smallest unit
\* 0.0001.
Amounts == {-1, 0, 1}

\* The amount column of Dispute, Resolve and Chargeback rows: blank, which
\* deserialize_decimal reads as zero.
RefAmounts == {0}

\* The amount column of Dispute rows: blank, or a value, which handle_dispute
\* never reads.
DisputeAmounts == {0, 1}

\* Amounts of the runs whose input carries no negative amount.
AmountsN == {0, 1, 2}

\* The rows of the scenario runs: one client, whole amounts 5 and 10.
ClientsE == {2}
TxIdsE == {4, 5, 6}
AmountsE == {Dec(5), Dec(10)}

VARIABLES
    accounts,      \* TransactionEngine.accounts: HashMap<u16, Account>
    transactions,  \* TransactionEngine.transactions: HashMap<u32, TransactionDetails>
    ev,            \* the Transaction passed to the last process_transaction call
    n,             \* number of process_transaction calls made so far
    creator,       \* history: for each stored record, the client of the event that inserted it
    pending,       \* history: the Dispute that the last call applied, if it applied one
    scen,          \* history: length of the prefix of ScenarioE the input has followed
    life           \* history: the calls that took effect per tx, while the rows' tx ids are distinct

vars == <<accounts, transactions, ev, n, creator, pending, scen, life>>

-----------------------------------------------------------------------------
\* HashMap operations.

contains_key(map, k) == k \in DOMAIN map

\* An insert that keeps the value already stored under the key.
insert_keeps_existing(map, k, v) ==
    [x \in (DOMAIN map) \cup {k} |-> IF x \in DOMAIN map THEN map[x] ELSE v]

insert(map, k, v) == [x \in (DOMAIN map) \cup {k} |-> IF x = k THEN v ELSE map[x]]

\* A remove that leaves the entry in the map.
remove_keeps_entry(map, k) == map

remove(map, k) == [x \in (DOMAIN map) \ {k} |-> map[x]]

EmptyMap == [x \in {} |-> 0]

\* Account::new
Account_new(client) ==
    [client |-> client, available |-> 0, held |-> 0, total |-> 0, locked |-> FALSE]

\* An insert in place of or_insert: an existing account is replaced by a new one.
entry_or_insert_always(accts, client) == insert(accts, client, Account_new(client))

\* self.accounts.entry(client).or_insert(Account::new(client))
entry_or_insert(accts, client) ==
    IF contains_key(accts, client) THEN accts ELSE insert(accts, client, Account_new(client))

\* TransactionEngine::new
TransactionEngine_new == [accounts |-> EmptyMap, transactions |-> EmptyMap]

-----------------------------------------------------------------------------
\* The handlers: each maps the engine and a transaction to the engine after it.

\* account.available += amount; account.total += amount
credit(account, amount) ==
    [account EXCEPT !.available = @ + amount, !.total = @ + amount]

\* account.available -= amount; account.total -= amount
debit(account, amount) ==
    [account EXCEPT !.available = @ - amount, !.total = @ - amount]

\* A hold that forgets to take the amount off available.
\* A hold that forgets to add the amount to held.
hold_keeps_held(account, amount) ==
    [account EXCEPT !.available = @ - amount]

hold_keeps_available(account, amount) ==
    [account EXCEPT !.held = @ + amount]

\* account.available -= amount; account.held += amount
hold(account, amount) ==
    [account EXCEPT !.available = @ - amount, !.held = @ + amount]

\* A release that also locks the account, as charge_back does.
release_locks(account, amount) ==
    [account EXCEPT !.available = @ + amount, !.held = @ - amount, !.locked = TRUE]

\* account.available += amount; account.held -= amount
release(account, amount) ==
    [account EXCEPT !.available = @ + amount, !.held = @ - amount]

\* A charge_back that forgets to take the amount off held.
charge_back_keeps_held(account, amount) ==
    [account EXCEPT !.total = @ - amount, !.locked = TRUE]

\* A charge_back that forgets to take the amount off total.
charge_back_keeps_total(account, amount) ==
    [account EXCEPT !.held = @ - amount, !.locked = TRUE]

\* account.held -= amount; account.total -= amount; account.locked = true
charge_back(account, amount) ==
    [account EXCEPT !.held = @ - amount, !.total = @ - amount, !.locked = TRUE]

TransactionDetails(amount) == [amount |-> amount, disputed |-> FALSE]

handle_deposit(self, t) ==
    LET accts == entry_or_insert(self.accounts, t.client)
    IN  [accounts |-> [accts EXCEPT ![t.client] = credit(@, t.amount)],
         transactions |-> insert(self.transactions, t.tx, TransactionDetails(t.amount))]

\* A funds check that refuses a Withdrawal of exactly the available funds.
withdrawal_allowed_strict(account, t) == account.available > t.amount

withdrawal_allowed(account, t) == account.available >= t.amount

handle_withdrawal(self, t) ==
    LET accts == entry_or_insert(self.accounts, t.client)
    IN  IF withdrawal_allowed(accts[t.client], t)
        THEN [accounts |-> [accts EXCEPT ![t.client] = debit(@, t.amount)],
              transactions |-> insert(self.transactions, t.tx, TransactionDetails(t.amount))]
        ELSE [accounts |-> accts, transactions |-> self.transactions]

\* A check that does not compare available with the record's amount.
dispute_allowed_ignores_funds(account, transaction_details) ==
    ~transaction_details.disputed

\* A check that does not look at the record's disputed flag.
dispute_allowed_ignores_flag(account, transaction_details) ==
    account.available >= transaction_details.amount

dispute_allowed(account, transaction_details) ==
    /\ ~transaction_details.disputed
    /\ account.available >= transaction_details.amount

\* A handler that stores the disputed record anew, from the Dispute row.
handle_dispute_rewrites_record(self, t) ==
    LET accts == entry_or_insert(self.accounts, t.client)
    IN  IF contains_key(self.transactions, t.tx)
           /\ dispute_allowed(accts[t.client], self.transactions[t.tx])
        THEN [accounts |-> [accts EXCEPT ![t.client] =
                               hold(@, self.transactions[t.tx].amount)],
              transactions |-> [self.transactions EXCEPT
                                   ![t.tx] = [amount |-> t.amount, disputed |-> TRUE]]]
        ELSE [accounts |-> accts, transactions |-> self.transactions]

\* A handler that moves the amount column of the Dispute row, not the amount
\* of the stored record.
handle_dispute_event_amount(self, t) ==
    LET accts == entry_or_insert(self.accounts, t.client)
    IN  IF contains_key(self.transactions, t.tx)
           /\ dispute_allowed(accts[t.client], self.transactions[t.tx])
        THEN [accounts |-> [accts EXCEPT ![t.client] = hold(@, t.amount)],
              transactions |-> [self.transactions EXCEPT ![t.tx].disputed = TRUE]]
        ELSE [accounts |-> accts, transactions |-> self.transactions]

handle_dispute(self, t) ==
    LET accts == entry_or_insert(self.accounts, t.client)
    IN  IF contains_key(self.transactions, t.tx)
           /\ dispute_allowed(accts[t.client], self.transactions[t.tx])
        THEN [accounts |-> [accts EXCEPT ![t.client] =
                               hold(@, self.transactions[t.tx].amount)],
              transactions |-> [self.transactions EXCEPT ![t.tx].disputed = TRUE]]
        ELSE [accounts |-> accts, transactions |-> self.transactions]

\* A check that does not look at the record's disputed flag.
resolve_allowed_ignores_flag(account, transaction_details) ==
    account.held >= transaction_details.amount

resolve_allowed(account, transaction_details) ==
    /\ transaction_details.disputed
    /\ account.held >= transaction_details.amount

handle_resolve(self, t) ==
    LET accts == entry_or_insert(self.accounts, t.client)
    IN  IF contains_key(self.transactions, t.tx)
           /\ resolve_allowed(accts[t.client], self.transactions[t.tx])
        THEN [accounts |-> [accts EXCEPT ![t.client] =
                               release(@, self.transactions[t.tx].amount)],
              transactions |-> remove([self.transactions EXCEPT ![t.tx].disputed = FALSE],
                                      t.tx)]
        ELSE [accounts |-> accts, transactions |-> self.transactions]

\* A check that does not compare held with the record's amount.
chargeback_allowed_ignores_held(account, transaction_details) ==
    transaction_details.disputed

chargeback_allowed(account, transaction_details) ==
    /\ transaction_details.disputed
    /\ account.held >= transaction_details.amount

\* A handler whose Chargeback locks every account, not only its client's.
handle_chargeback_locks_all(self, t) ==
    LET accts == entry_or_insert(self.accounts, t.client)
    IN  IF contains_key(self.transactions, t.tx)
           /\ chargeback_allowed(accts[t.client], self.transactions[t.tx])
        THEN [accounts |-> [c \in DOMAIN accts |->
                               IF c = t.client
                               THEN charge_back(accts[c], self.transactions[t.tx].amount)
                               ELSE [accts[c] EXCEPT !.locked = TRUE]],
              transactions |-> remove(self.transactions, t.tx)]
        ELSE [accounts |-> accts, transactions |-> self.transactions]

handle_chargeback(self, t) ==
    LET accts == entry_or_insert(self.accounts, t.client)
    IN  IF contains_key(self.transactions, t.tx)
           /\ chargeback_allowed(accts[t.client], self.transactions[t.tx])
        THEN [accounts |-> [accts EXCEPT ![t.client] =
                               charge_back(@, self.transactions[t.tx].amount)],
              transactions |-> remove([self.transactions EXCEPT ![t.tx].disputed = FALSE],
                                      t.tx)]
        ELSE [accounts |-> accts, transactions |-> self.transactions]

\* A guard that lets a Deposit through to a locked account.
is_locked_but_deposit(self, t) ==
    /\ contains_key(self.accounts, t.client)
    /\ self.accounts[t.client].locked
    /\ t.tx_type # "deposit"

\* The guard at the head of process_transaction.
is_locked(self, t) ==
    contains_key(self.accounts, t.client) /\ self.accounts[t.client].locked

process_transaction(self, t) ==
    IF is_locked(self, t)
    THEN self
    ELSE CASE t.tx_type = "deposit"    -> handle_deposit(self, t)
           [] t.tx_type = "withdrawal" -> handle_withdrawal(self, t)
           [] t.tx_type = "dispute"    -> handle_dispute(self, t)
           [] t.tx_type = "resolve"    -> handle_resolve(self, t)
           [] t.tx_type = "chargeback" -> handle_chargeback(self, t)

-----------------------------------------------------------------------------
\* The run: main reads one row at a time and hands it to process_transaction.

Transaction(ty, c, tx, a) == [tx_type |-> ty, client |-> c, tx |-> tx, amount |-> a]

\* Scenario E of the specification (section 8), followed by its extra Deposit.
ScenarioE ==
    << Transaction("deposit", 2, 4, Dec(10)),
       Transaction("withdrawal", 2, 5, Dec(5)),
       Transaction("dispute", 2, 5, 0),
       Transaction("chargeback", 2, 5, 0),
       Transaction("deposit", 2, 6, Dec(10)) >>

engine == [accounts |-> accounts, transactions |-> transactions]

\* Whether the call inserts a record for t.tx: a Deposit that passes the lock
\* guard, or a Withdrawal that passes it and its funds check.
inserts_record(self, t) ==
    /\ ~is_locked(self, t)
    /\ \/ t.tx_type = "deposit"
       \/ /\ t.tx_type = "withdrawal"
          /\ withdrawal_allowed(entry_or_insert(self.accounts, t.client)[t.client], t)

\* History of who inserted each stored record: follows the inserts and removes
\* that the call made on self.transactions.
creator_after(after, t) ==
    [x \in DOMAIN after.transactions |->
        IF x = t.tx /\ inserts_record(engine, t) THEN t.client ELSE creator[x]]

Balances(account) == <<account.available, account.held, account.total>>

NoPending == [client |-> 0, tx |-> 0, before |-> <<0, 0, 0>>]

\* History of the last call when it was a Dispute that took effect (it set the
\* record's flag): the client, the tx and the client's balances before it.
pending_after(after, t) ==
    IF t.tx_type = "dispute" /\ after.transactions # transactions
    THEN [client |-> t.client, tx |-> t.tx,
          before |-> Balances(entry_or_insert(accounts, t.client)[t.client])]
    ELSE NoPending

scen_after(t) ==
    IF scen = n /\ n < Len(ScenarioE) /\ t = ScenarioE[n + 1] THEN scen + 1 ELSE scen

\* History of the rows read so far, kept while the Deposit and Withdrawal rows
\* carry pairwise distinct tx ids: the ids those rows used, whether every
\* Dispute, Resolve and Chargeback row that named a stored record carried the
\* client of the row that inserted it, and per tx the calls that took effect.
NewLife == [distinct |-> TRUE, used |-> {}, owned |-> TRUE, log |-> EmptyMap]

\* The history once two Deposit or Withdrawal rows have carried the same tx.
BrokenLife == [distinct |-> FALSE, used |-> {}, owned |-> FALSE, log |-> EmptyMap]

creates(t) == t.tx_type \in {"deposit", "withdrawal"}

\* Whether the call took effect on the records: it inserted t.tx, set its
\* flag, or removed it.
took_effect(after, t) ==
    IF creates(t) THEN inserts_record(engine, t) ELSE after.transactions # transactions

log_after(after, t) ==
    IF took_effect(after, t)
    THEN insert(life.log, t.tx,
                Append(IF t.tx \in DOMAIN life.log THEN life.log[t.tx] ELSE << >>,
                       IF creates(t) THEN "create" ELSE t.tx_type))
    ELSE life.log

life_after(after, t) ==
    IF ~life.distinct \/ (creates(t) /\ t.tx \in life.used)
    THEN BrokenLife
    ELSE [distinct |-> TRUE,
          used     |-> IF creates(t) THEN life.used \cup {t.tx} ELSE life.used,
          owned    |-> /\ life.owned
                       /\ (~creates(t) /\ t.tx \in DOMAIN transactions) =>
                              creator[t.tx] = t.client,
          log      |-> log_after(after, t)]

Step(t) ==
    /\ LET after == process_transaction(engine, t)
       IN  /\ accounts' = after.accounts
           /\ transactions' = after.transactions
           /\ creator' = creator_after(after, t)
           /\ pending' = pending_after(after, t)
           /\ life' = life_after(after, t)
    /\ ev' = t
    /\ n' = n + 1
    /\ scen' = scen_after(t)

Deposit ==
    \E c \in Clients, tx \in TxIds, a \in Amounts :
        /\ n < MaxEvents
        /\ Step(Transaction("deposit", c, tx, a))

Withdrawal ==
    \E c \in Clients, tx \in TxIds, a \in Amounts :
        /\ n < MaxEvents
        /\ Step(Transaction("withdrawal", c, tx, a))

Dispute ==
    \E c \in Clients, tx \in TxIds, a \in DisputeAmounts :
        /\ n < MaxEvents
        /\ Step(Transaction("dispute", c, tx, a))

Resolve ==
    \E c \in Clients, tx \in TxIds, a \in RefAmounts :
        /\ n < MaxEvents
        /\ Step(Transaction("resolve", c, tx, a))

Chargeback ==
    \E c \in Clients, tx \in TxIds, a \in RefAmounts :
        /\ n < MaxEvents
        /\ Step(Transaction("chargeback", c, tx, a))

\* Deposits and Withdrawals of the runs whose input carries no negative amount.
DepositN ==
    \E c \in Clients, tx \in TxIds, a \in AmountsN :
        /\ n < MaxEvents
        /\ Step(Transaction("deposit", c, tx, a))

WithdrawalN ==
    \E c \in Clients, tx \in TxIds, a \in AmountsN :
        /\ n < MaxEvents
        /\ Step(Transaction("withdrawal", c, tx, a))

\* The same calls on the rows of the scenario runs.
DepositE ==
    \E c \in ClientsE, tx \in TxIdsE, a \in AmountsE :
        /\ n < MaxEvents
        /\ Step(Transaction("deposit", c, tx, a))

WithdrawalE ==
    \E c \in ClientsE, tx \in TxIdsE, a \in AmountsE :
        /\ n < MaxEvents
        /\ Step(Transaction("withdrawal", c, tx, a))

DisputeE ==
    \E c \in ClientsE, tx \in TxIdsE, a \in RefAmounts :
        /\ n < MaxEvents
        /\ Step(Transaction("dispute", c, tx, a))

ResolveE ==
    \E c \in ClientsE, tx \in TxIdsE, a \in RefAmounts :
        /\ n < MaxEvents
        /\ Step(Transaction("resolve", c, tx, a))

ChargebackE ==
    \E c \in ClientsE, tx \in TxIdsE, a \in RefAmounts :
        /\ n < MaxEvents
        /\ Step(Transaction("chargeback", c, tx, a))

NoEvent == [tx_type |-> "none", client |-> 0, tx |-> 0, amount |-> 0]

Init ==
    /\ accounts = TransactionEngine_new.accounts
    /\ transactions = TransactionEngine_new.transactions
    /\ ev = NoEvent
    /\ n = 0
    /\ creator = EmptyMap
    /\ pending = NoPending
    /\ scen = 0
    /\ life = NewLife

Next == Deposit \/ Withdrawal \/ Dispute \/ Resolve \/ Chargeback

Spec == Init /\ [][Next]_vars

NextN == DepositN \/ WithdrawalN \/ Dispute \/ Resolve \/ Chargeback

SpecN == Init /\ [][NextN]_vars

NextE == DepositE \/ WithdrawalE \/ DisputeE \/ ResolveE \/ ChargebackE

SpecE == Init /\ [][NextE]_vars

-----------------------------------------------------------------------------
\* Properties of the engine.

\* The account of client c as a handler sees it before the call: the stored
\* one, or the zero account the handler creates.
ZeroAccount(c) ==
    [client |-> c, available |-> 0, held |-> 0, total |-> 0, locked |-> FALSE]

AccountBefore(c) == IF c \in DOMAIN accounts THEN accounts[c] ELSE ZeroAccount(c)

\* The step is a process_transaction call with an event of the given kind.
Called(kind) == n' = n + 1 /\ ev'.tx_type = kind

\* C1: in every reachable state every account has total = available + held.
C1_TotalIsAvailablePlusHeld ==
    \A c \in DOMAIN accounts :
        accounts[c].total = accounts[c].available + accounts[c].held

\* A successful Chargeback has just locked an account that still has funds
\* both available and held.
C1_Witness ==
    /\ ev.tx_type = "chargeback"
    /\ \E c \in DOMAIN accounts :
        /\ accounts[c].locked
        /\ accounts[c].available # 0
        /\ accounts[c].held # 0
        /\ accounts[c].total # 0

\* C2: once an account is locked it stays locked, and every call whose event
\* names that client changes neither map: no account changes and no record
\* is created, modified or removed.
C2_LockedAccountIsFrozen ==
    [][\A c \in DOMAIN accounts :
          accounts[c].locked =>
              /\ c \in DOMAIN accounts' /\ accounts'[c].locked
              /\ (n' = n + 1 /\ ev'.client = c) =>
                     (accounts' = accounts /\ transactions' = transactions)]_vars

\* A Deposit for a locked client has been processed and its tx has no record.
C2_Witness ==
    /\ ev.tx_type = "deposit"
    /\ ev.amount # 0
    /\ ev.client \in DOMAIN accounts
    /\ accounts[ev.client].locked
    /\ ev.tx \notin DOMAIN transactions

\* C3: no account ever has a negative available, held or total, whatever the
\* signs of the Deposit and Withdrawal amounts.
C3_NoNegativeBalance ==
    \A c \in DOMAIN accounts :
        /\ accounts[c].available >= 0
        /\ accounts[c].held >= 0
        /\ accounts[c].total >= 0

\* The input so far is exactly the first k rows of Scenario E.
OnScenarioE(k) == scen = k /\ n = k

\* C4 as stated: after the four rows of Scenario E account 2 has available 5,
\* held 0, total 5 and is locked; the following Deposit(2, 6, 10) changes no
\* balance and creates no record 6.
C4_ScenarioE_AsStated ==
    /\ (OnScenarioE(4) \/ OnScenarioE(5)) =>
           /\ 2 \in DOMAIN accounts
           /\ accounts[2] = [client |-> 2, available |-> Dec(5), held |-> 0,
                             total |-> Dec(5), locked |-> TRUE]
    /\ OnScenarioE(5) => 6 \notin DOMAIN transactions

\* C4 amended: after the four rows of Scenario E account 2 has available 0,
\* held 0, total 0 and is locked (the Dispute holds the 5 that were left and
\* the Chargeback removes them); the following Deposit(2, 6, 10) changes no
\* balance and creates no record 6.
C4_ScenarioE ==
    /\ (OnScenarioE(4) \/ OnScenarioE(5)) =>
           /\ 2 \in DOMAIN accounts
           /\ accounts[2] = [client |-> 2, available |-> 0, held |-> 0,
                             total |-> 0, locked |-> TRUE]
    /\ OnScenarioE(5) => 6 \notin DOMAIN transactions

\* All five rows of Scenario E have been processed, the last being the
\* Deposit on the locked account.
C4_Witness == OnScenarioE(5) /\ ev = ScenarioE[5]

\* C5: a Dispute naming a record that another client's Deposit or Withdrawal
\* created leaves available, held and total of every account unchanged.
C5_ForeignDisputeKeepsBalances ==
    [][(/\ Called("dispute")
        /\ ev'.tx \in DOMAIN transactions
        /\ creator[ev'.tx] # ev'.client) =>
           \A c \in DOMAIN accounts' :
               Balances(accounts'[c]) = Balances(AccountBefore(c))]_vars

\* The business rules as the call finds them violated by event t: the client
\* is locked, a Withdrawal exceeds available, a Dispute names no record or a
\* disputed one or one larger than available, a Resolve or Chargeback names
\* no record or an undisputed one or one larger than held.
RuleViolated(t) ==
    LET a == AccountBefore(t.client)
        known == t.tx \in DOMAIN transactions
    IN  \/ a.locked
        \/ t.tx_type = "withdrawal" /\ t.amount > a.available
        \/ /\ t.tx_type = "dispute"
           /\ (~known \/ transactions[t.tx].disputed
                      \/ a.available < transactions[t.tx].amount)
        \/ /\ t.tx_type \in {"resolve", "chargeback"}
           /\ (~known \/ ~transactions[t.tx].disputed
                      \/ a.held < transactions[t.tx].amount)

\* C6 as stated: an event that violates a business rule leaves the set of
\* accounts and the set of records, with all their fields, identical.
C6_ViolationChangesNothing_AsStated ==
    [][(n' = n + 1 /\ RuleViolated(ev')) =>
           (accounts' = accounts /\ transactions' = transactions)]_vars

\* C6 amended: an event that violates a business rule leaves every record
\* and every existing account identical; the one change it can make is to
\* create the account of its client, with zero balances and unlocked, when
\* that client had none.
C6_ViolationChangesNothing ==
    [][(n' = n + 1 /\ RuleViolated(ev')) =>
           /\ transactions' = transactions
           /\ DOMAIN accounts' = DOMAIN accounts \cup {ev'.client}
           /\ \A c \in DOMAIN accounts' : accounts'[c] = AccountBefore(c)]_vars

\* The first event is a Withdrawal of more than nothing: it was dropped and
\* left its client's new, empty account.
C6_Witness ==
    /\ n = 1
    /\ ev.tx_type = "withdrawal"
    /\ ev.amount > 0
    /\ transactions = EmptyMap
    /\ DOMAIN accounts = {ev.client}
    /\ accounts[ev.client] = ZeroAccount(ev.client)

\* C7: a Dispute from a client that has an account, naming no stored record
\* or a record already disputed, changes no account and no record.
C7_DisputeDropIsNoOp ==
    [][(/\ Called("dispute")
        /\ ev'.client \in DOMAIN accounts
        /\ \/ ev'.tx \notin DOMAIN transactions
           \/ transactions[ev'.tx].disputed) =>
           (accounts' = accounts /\ transactions' = transactions)]_vars

\* The last call was a Dispute that did not take effect, on a record that is
\* disputed, from an unlocked client that holds funds.
C7_Witness ==
    /\ ev.tx_type = "dispute"
    /\ pending = NoPending
    /\ ev.tx \in DOMAIN transactions
    /\ transactions[ev.tx].disputed
    /\ transactions[ev.tx].amount > 0
    /\ ~accounts[ev.client].locked
    /\ accounts[ev.client].held = transactions[ev.tx].amount

\* C8: a Withdrawal for an unlocked client is applied exactly when amount <=
\* available: then available and total fall by amount, held and locked stay
\* and the record (amount, disputed = false) is stored; otherwise no balance
\* of any account changes and the records are as before.
C8_WithdrawalIffFunds ==
    [][(Called("withdrawal") /\ ~AccountBefore(ev'.client).locked) =>
           LET c == ev'.client
               a == AccountBefore(c)
           IN  IF ev'.amount <= a.available
               THEN /\ accounts'[c] = [client |-> c,
                                       available |-> a.available - ev'.amount,
                                       held |-> a.held,
                                       total |-> a.total - ev'.amount,
                                       locked |-> FALSE]
                    /\ ev'.tx \in DOMAIN transactions'
                    /\ transactions'[ev'.tx] = [amount |-> ev'.amount, disputed |-> FALSE]
               ELSE /\ \A d \in DOMAIN accounts' :
                           Balances(accounts'[d]) = Balances(AccountBefore(d))
                    /\ transactions' = transactions]_vars

\* The second of two events of one client is a Withdrawal of a positive
\* amount that took all the available funds and stored its record.
C8_Witness ==
    /\ n = 2
    /\ ev.tx_type = "withdrawal"
    /\ ev.amount > 0
    /\ DOMAIN accounts = {ev.client}
    /\ accounts[ev.client].available = 0
    /\ accounts[ev.client].total = 0
    /\ ev.tx \in DOMAIN transactions
    /\ transactions[ev.tx] = [amount |-> ev.amount, disputed |-> FALSE]

\* C9: when a Dispute of tx t by client c has been applied and the next
\* event is Resolve of t by c, then after the Resolve c's available, held and
\* total are what they were before the Dispute and t has no record.
C9_DisputeResolveRoundTrip ==
    [][(/\ pending # NoPending
        /\ Called("resolve")
        /\ ev'.client = pending.client
        /\ ev'.tx = pending.tx) =>
           /\ Balances(accounts'[pending.client]) = pending.before
           /\ pending.tx \notin DOMAIN transactions']_vars

\* C10: a Chargeback for an unlocked client is applied exactly when its tx
\* has a record, the record is disputed and held >= the record's amount:
\* then held and total fall by that amount, available stays, locked becomes
\* true and the record is removed; otherwise the account and the records
\* are as before.
C10_ChargebackIffDisputedAndHeld ==
    [][(Called("chargeback") /\ ~AccountBefore(ev'.client).locked) =>
           LET c == ev'.client
               a == AccountBefore(c)
           IN  IF /\ ev'.tx \in DOMAIN transactions
                  /\ transactions[ev'.tx].disputed
                  /\ a.held >= transactions[ev'.tx].amount
               THEN /\ accounts'[c] = [client |-> c,
                                       available |-> a.available,
                                       held |-> a.held - transactions[ev'.tx].amount,
                                       total |-> a.total - transactions[ev'.tx].amount,
                                       locked |-> TRUE]
                    /\ transactions' = [x \in DOMAIN transactions \ {ev'.tx} |->
                                           transactions[x]]
               ELSE /\ accounts'[c] = a
                    /\ transactions' = transactions]_vars

\* The third event is a Chargeback that locked its client (a lock takes a
\* record, a Dispute and a Chargeback) and removed a record of a positive
\* amount, leaving funds available.
C10_Witness ==
    /\ n = 3
    /\ ev.tx_type = "chargeback"
    /\ accounts[ev.client].locked
    /\ ev.tx \notin DOMAIN transactions
    /\ accounts[ev.client].held = 0
    /\ accounts[ev.client].total # 0

\* C11: locked never goes from true to false, and it goes from false to true
\* only in the call of a Chargeback for that client whose tx has a record
\* that is disputed and no larger than the client's held.
C11_LockedOnlyByChargeback ==
    [][\A c \in DOMAIN accounts' :
          /\ AccountBefore(c).locked => accounts'[c].locked
          /\ (~AccountBefore(c).locked /\ accounts'[c].locked) =>
                 /\ Called("chargeback")
                 /\ ev'.client = c
                 /\ ev'.tx \in DOMAIN transactions
                 /\ transactions[ev'.tx].disputed
                 /\ AccountBefore(c).held >= transactions[ev'.tx].amount]_vars

\* The third event is a Chargeback that locked its client (no lock takes
\* fewer than a record, a Dispute and a Chargeback), while the other client,
\* who has funds, is not locked.
C11_Witness ==
    /\ n = 3
    /\ ev.tx_type = "chargeback"
    /\ accounts[ev.client].locked
    /\ \E d \in DOMAIN accounts : ~accounts[d].locked /\ accounts[d].total > 0

\* C12: after a call the event's client has an account, whatever the kind of
\* the event and whether it was applied or dropped, and no account is
\* removed; an account created by the call is the zero, unlocked account
\* with the event's effect on it (none for a dropped event, the amount on
\* available and total for a Deposit); an existing account is not reset.
C12_AccountCreatedOnFirstEvent ==
    [][n' = n + 1 =>
          LET c == ev'.client
          IN  /\ DOMAIN accounts' = DOMAIN accounts \cup {c}
              /\ accounts'[c].client = c
              /\ (c \notin DOMAIN accounts /\ RuleViolated(ev')) =>
                     accounts'[c] = ZeroAccount(c)
              /\ (c \notin DOMAIN accounts /\ ev'.tx_type = "deposit") =>
                     accounts'[c] = [client |-> c, available |-> ev'.amount, held |-> 0,
                                     total |-> ev'.amount, locked |-> FALSE]
              /\ (c \in DOMAIN accounts /\ RuleViolated(ev')) =>
                     accounts'[c] = accounts[c]]_vars

\* The second event is the first to name its client, a Resolve that was
\* dropped: its client has the zero account, beside the first client's
\* account, which holds a deposit.
C12_Witness ==
    /\ n = 2
    /\ ev.tx_type = "resolve"
    /\ accounts[ev.client] = ZeroAccount(ev.client)
    /\ \E d \in DOMAIN accounts : d # ev.client /\ accounts[d].available > 0

\* C13: when no Deposit or Withdrawal amount is negative, every account has
\* available >= 0 and held >= 0, hence total >= 0, also with reused tx ids
\* and with Disputes, Resolves and Chargebacks on other clients' records.
C13_NoNegativeBalanceForNonNegativeAmounts ==
    \A c \in DOMAIN accounts :
        /\ 0 <= accounts[c].available
        /\ 0 <= accounts[c].held
        /\ 0 <= accounts[c].total

\* The last call was an applied Dispute by a client on a record of a positive
\* amount that another client inserted, and it took all the disputing
\* client's available funds.
C13_Witness ==
    /\ ev.tx_type = "dispute"
    /\ pending # NoPending
    /\ transactions[ev.tx].amount > 0
    /\ creator[ev.tx] # ev.client
    /\ accounts[ev.client].available = 0
    /\ accounts[ev.client].held > 0

\* C15: a Dispute for an unlocked client is applied exactly when its tx has
\* a record, the record is not disputed and the client's available >= the
\* record's amount: then the record becomes disputed and keeps its amount,
\* available falls and held rises by the record's amount (not by the amount
\* column of the Dispute row), total and locked stay; otherwise the account
\* and the records are as before.
C15_DisputeIffUndisputedAndFunds ==
    [][(Called("dispute") /\ ~AccountBefore(ev'.client).locked) =>
           LET c == ev'.client
               a == AccountBefore(c)
           IN  IF /\ ev'.tx \in DOMAIN transactions
                  /\ ~transactions[ev'.tx].disputed
                  /\ a.available >= transactions[ev'.tx].amount
               THEN /\ accounts'[c] = [client |-> c,
                                       available |-> a.available - transactions[ev'.tx].amount,
                                       held |-> a.held + transactions[ev'.tx].amount,
                                       total |-> a.total,
                                       locked |-> FALSE]
                    /\ transactions' = [x \in DOMAIN transactions |->
                                           IF x = ev'.tx
                                           THEN [amount |-> transactions[x].amount,
                                                 disputed |-> TRUE]
                                           ELSE transactions[x]]
               ELSE /\ accounts'[c] = a
                    /\ transactions' = transactions]_vars

\* The second event is an applied Dispute, with 0.0001 in its amount column,
\* of the record that a Withdrawal of -0.0001 by the same client stored (a
\* Deposit of -0.0001 would have left available at 0 here): the record's
\* -0.0001 went from available to held.
C15_Witness ==
    /\ n = 2
    /\ ev.tx_type = "dispute"
    /\ ev.amount = 1
    /\ pending # NoPending
    /\ DOMAIN accounts = {ev.client}
    /\ Balances(accounts[ev.client]) = <<2, -1, 1>>
    /\ transactions[ev.tx] = [amount |-> -1, disputed |-> TRUE]

\* C16: a Deposit for an unlocked client is always applied, adding its amount
\* to available and total; an applied Deposit or Withdrawal leaves under its
\* tx the record (event amount, disputed = false), whatever record was
\* stored there before, leaves every other record as it was and changes no
\* account's held.
C16_DepositAppliesAndRecordIsReplaced ==
    [][((Called("deposit") \/ Called("withdrawal")) /\ ~AccountBefore(ev'.client).locked) =>
           LET c == ev'.client
               a == AccountBefore(c)
               applied == ev'.tx_type = "deposit" \/ ev'.amount <= a.available
           IN  /\ ev'.tx_type = "deposit" =>
                      accounts'[c] = [client |-> c,
                                      available |-> a.available + ev'.amount,
                                      held |-> a.held,
                                      total |-> a.total + ev'.amount,
                                      locked |-> FALSE]
               /\ applied =>
                      /\ transactions' =
                             [x \in DOMAIN transactions \cup {ev'.tx} |->
                                 IF x = ev'.tx
                                 THEN [amount |-> ev'.amount, disputed |-> FALSE]
                                 ELSE transactions[x]]
                      /\ \A d \in DOMAIN accounts' :
                             accounts'[d].held = AccountBefore(d).held]_vars

\* The third event is a Deposit under the tx of the record that the same
\* client had stored and disputed: the record is again undisputed while its
\* amount is still held.
C16_Witness ==
    /\ n = 3
    /\ ev.tx_type = "deposit"
    /\ ev.amount = 1
    /\ DOMAIN accounts = {ev.client}
    /\ Balances(accounts[ev.client]) = <<1, 1, 2>>
    /\ DOMAIN transactions = {ev.tx}
    /\ transactions[ev.tx] = [amount |-> 1, disputed |-> FALSE]

\* C17: a Dispute, Resolve or Chargeback creates no record and changes no
\* record's amount: the stored tx ids after it are among those before it
\* (the same for a Dispute), and every record but the one its tx names is as
\* it was.
C17_ReferencesNeverCreateRecords ==
    [][(Called("dispute") \/ Called("resolve") \/ Called("chargeback")) =>
           /\ DOMAIN transactions' \subseteq DOMAIN transactions
           /\ Called("dispute") => DOMAIN transactions' = DOMAIN transactions
           /\ \A x \in DOMAIN transactions' :
                  transactions'[x].amount = transactions[x].amount
           /\ \A x \in DOMAIN transactions \ {ev'.tx} :
                  x \in DOMAIN transactions' /\ transactions'[x] = transactions[x]]_vars

\* The last call was a Dispute, by a client with funds, of a tx that has no
\* record, while another tx has one.
C17_Witness ==
    /\ ev.tx_type = "dispute"
    /\ ev.tx \notin DOMAIN transactions
    /\ DOMAIN transactions # {}
    /\ accounts[ev.client].available > 0

\* C18: a call with an event of client c leaves the account of every other
\* client as it was, also when the event's tx names a record that the other
\* client inserted.
C18_OtherAccountsUntouched ==
    [][n' = n + 1 =>
           \A d \in DOMAIN accounts \ {ev'.client} :
               d \in DOMAIN accounts' /\ accounts'[d] = accounts[d]]_vars

\* The third event is a Dispute that took effect, by a client on the record
\* of 0.0001 that the other client's Deposit stored: the other client still
\* has exactly that deposit available, nothing held, and is not locked.
C18_Witness ==
    /\ n = 3
    /\ ev.tx_type = "dispute"
    /\ pending # NoPending
    /\ creator[ev.tx] # ev.client
    /\ transactions[ev.tx] = [amount |-> 1, disputed |-> TRUE]
    /\ accounts[creator[ev.tx]] = [client |-> creator[ev.tx], available |-> 1, held |-> 0,
                                   total |-> 1, locked |-> FALSE]
    /\ accounts[ev.client].held = 1

RECURSIVE SumOver(_, _)
\* The sum of f[x] over the x in set S.
SumOver(f, S) ==
    IF S = {} THEN 0
    ELSE LET x == CHOOSE y \in S : TRUE IN f[x] + SumOver(f, S \ {x})

\* The held funds of all accounts, and the amounts of all disputed records.
SumHeld(accts) == SumOver([c \in DOMAIN accts |-> accts[c].held], DOMAIN accts)

SumDisputed(txs) ==
    SumOver([x \in DOMAIN txs |-> txs[x].amount],
            {x \in DOMAIN txs : txs[x].disputed})

\* The step is an applied Deposit or Withdrawal whose tx had a stored record.
OverwritesRecord ==
    /\ Called("deposit") \/ Called("withdrawal")
    /\ ev'.tx \in DOMAIN transactions
    /\ ~AccountBefore(ev'.client).locked
    /\ ev'.tx_type = "deposit" \/ ev'.amount <= AccountBefore(ev'.client).available

\* C19: the held funds of all accounts together equal the amounts of all
\* disputed records together, in the empty engine and after every step that
\* starts from such a state and is not an applied Deposit or Withdrawal
\* under a tx that has a stored record; so they are equal in every state of
\* a run without such a step.
C19_HeldBackedByDisputes ==
    /\ SumHeld(accounts) = SumDisputed(transactions)
    /\ [][(SumHeld(accounts) = SumDisputed(transactions) /\ ~OverwritesRecord) =>
              SumHeld(accounts') = SumDisputed(transactions')]_vars

\* After four events two records of 0.0001 are stored and disputed, and each
\* client holds 0.0001: the four events were the two that stored the records
\* and the two Disputes, so no record was overwritten.
C19_Witness ==
    /\ n = 4
    /\ DOMAIN accounts = {1, 2}
    /\ accounts[1].held = 1
    /\ accounts[2].held = 1
    /\ DOMAIN transactions = {4, 5}
    /\ transactions[4] = [amount |-> 1, disputed |-> TRUE]
    /\ transactions[5] = [amount |-> 1, disputed |-> TRUE]

\* The orders in which calls can take effect on one tx.
Lifecycles ==
    { <<"create">>, <<"create", "dispute">>,
      <<"create", "dispute", "resolve">>, <<"create", "dispute", "chargeback">> }

Closed(tx) == tx \in DOMAIN life.log /\ Len(life.log[tx]) = 3

\* C14: while the Deposit and Withdrawal rows carry pairwise distinct tx ids,
\* the calls that took effect on each tx are a creation, then at most one
\* Dispute, then at most one Resolve or Chargeback; after that Resolve or
\* Chargeback the record is absent, and a later Dispute, Resolve or Chargeback
\* naming the tx leaves every record and every account's balances and flag
\* as they were.
C14_DisputeLifecycleOrder ==
    /\ [](life.distinct =>
             \A tx \in DOMAIN life.log :
                 /\ life.log[tx] \in Lifecycles
                 /\ Closed(tx) => tx \notin DOMAIN transactions)
    /\ [][(life.distinct /\ n' = n + 1 /\ ~creates(ev') /\ Closed(ev'.tx)) =>
              /\ transactions' = transactions
              /\ \A c \in DOMAIN accounts' : accounts'[c] = AccountBefore(c)]_vars

\* One client's record was created, disputed and resolved, and the fourth row
\* is its Dispute naming the tx again, with the funds to dispute in hand.
C14_Witness ==
    /\ n = 4
    /\ life.distinct /\ life.owned
    /\ DOMAIN accounts = {ev.client}
    /\ ev.tx_type = "dispute"
    /\ ev.tx \in DOMAIN life.log
    /\ life.log[ev.tx] = <<"create", "dispute", "resolve">>
    /\ accounts[ev.client].available > 0

\* C20: with non-negative amounts, pairwise distinct Deposit and Withdrawal tx
\* ids and every Dispute, Resolve and Chargeback that names a stored record
\* carrying the client of the row that inserted it, the unlocked creator of a
\* disputed record holds at least the record's amount, and its Resolve or
\* Chargeback of that tx removes the record and takes the amount off held.
C20_OwnerCanCloseDispute ==
    /\ []((life.distinct /\ life.owned) =>
             \A tx \in DOMAIN transactions :
                 (transactions[tx].disputed /\ ~accounts[creator[tx]].locked) =>
                     accounts[creator[tx]].held >= transactions[tx].amount)
    /\ [][(/\ life.distinct /\ life.owned
           /\ Called("resolve") \/ Called("chargeback")
           /\ ev'.tx \in DOMAIN transactions
           /\ transactions[ev'.tx].disputed
           /\ creator[ev'.tx] = ev'.client
           /\ ~accounts[ev'.client].locked) =>
              /\ ev'.tx \notin DOMAIN transactions'
              /\ accounts'[ev'.client].held =
                     accounts[ev'.client].held - transactions[ev'.tx].amount]_vars

\* One client deposited 0.0001 and 0.0002, disputed both and resolved the
\* first: the second is still disputed and its 0.0002 is still held.
C20_Witness ==
    /\ n = 5
    /\ life.distinct /\ life.owned
    /\ ev.tx_type = "resolve"
    /\ ev.tx \in DOMAIN life.log
    /\ life.log[ev.tx] = <<"create", "dispute", "resolve">>
    /\ \E tx \in DOMAIN transactions :
           /\ transactions[tx] = [amount |-> 2, disputed |-> TRUE]
           /\ creator[tx] = ev.client
    /\ Balances(accounts[ev.client]) = <<1, 2, 3>>

====
